---- MODULE Spec2Model ----
(***************************************************************************)
(* A model of PyFactorGraph's measurement entities                        *)
(* (py_factor_graph/measurements.py) and of the GOATS dataset ingestion   *)
(* (py_factor_graph/parsing/parse_goats_data.py).                         *)
(*                                                                         *)
(* Spec        one GoatsParser(...) construction, phase by phase           *)
(* SpecEntities constructions of the measurement value objects             *)
(*                                                                         *)
(* Floats read from the CSV are records [kind, val]: kind is "nan", "inf" *)
(* or "num" (val in metres).  An identifier such as "A12" or "L3" is the   *)
(* sequence of its first character and the rest, <<"A", 12>>.              *)
(* FactorGraphData (py_factor_graph/factor_graph.py) is not among the     *)
(* source files; its add-operations follow sections 4.4 and 7 of the      *)
(* specification: a measurement that names an absent variable fails at    *)
(* the addition.  The geometry of poses and odometry (matrix_utils.py) is *)
(* left out: an odometry measurement keeps its two pose names and its     *)
(* precisions.                                                             *)
(***************************************************************************)
EXTENDS Integers, Sequences, FiniteSets, TLC

VARIABLES
    data_file_path,        \* GoatsParser.data_file_path: what the OS says of the path
    beacon_loc_file_path,  \* GoatsParser.beacon_loc_file_path
    dim,                   \* GoatsParser.dim
    filter_ranges,         \* GoatsParser.filter_ranges
    data_csv,              \* content of the sensor file: the range columns
    beacon_csv,            \* content of the beacon file: its number of columns
    data,                  \* GoatsParser._data
    beacon_locs,           \* GoatsParser._beacon_locs (its length)
    pyfg,                  \* GoatsParser.pyfg
    pc,                    \* position of the construction
    error,                 \* the exception that left the constructor, "" if none
    beacon_idx,            \* loop variables of _add_range_measurements
    pose_idx,
    call,                  \* the last call of a measurement constructor
    made,                  \* the object that call made
    raised,                \* what that call raised, "" if nothing
    read                   \* what the last read of made.covariance gave

ingest_vars == <<data_file_path, beacon_loc_file_path, dim, filter_ranges, data_csv,
                 beacon_csv, data, beacon_locs, pyfg, pc, error, beacon_idx, pose_idx>>
entity_vars == <<call, made, raised, read>>
vars == <<ingest_vars, entity_vars>>

----------------------------------------------------------------------------
(* Bounds of the model *)

MaxRows == 3

\* associations of the model have at most this many elements
MaxAssocLen == 3

\* beacon-location files of the model have 0, 1 or 2 columns (_COLUMN_NAMES
\* names the range columns of at most 4 beacons); sensor files have as many raw
\* and as many filtered range columns
BeaconCounts == 0..2

\* values passed as dim
Dims == {1, 2, 3}

----------------------------------------------------------------------------
(* Floats *)

NaN == [kind |-> "nan", val |-> 0]
Inf == [kind |-> "inf", val |-> 0]
Num(v) == [kind |-> "num", val |-> v]

isnan(x) == x.kind = "nan"
isinf(x) == x.kind = "inf"
\* np.isreal: every float is real; only a complex number with a non-zero
\* imaginary part is not
isreal(x) == x.kind # "complex"

\* the commented-out physical bounds of _add_range_measurements
MinRange == 2
MaxRange == 150
OutOfBounds(x) == x.kind = "num" /\ (x.val < MinRange \/ x.val > MaxRange)

\* readings of the model: missing, infinite, below the minimum, within bounds
Readings == {NaN, Inf, Num(1), Num(5)}

----------------------------------------------------------------------------
(* Identifiers *)

\* f"A{idx}", f"L{idx}"
PoseName(idx) == <<"A", idx>>
LandmarkName(idx) == <<"L", idx>>

\* str.startswith("L")
StartsWithL(s) == Len(s) >= 1 /\ s[1] = "L"

----------------------------------------------------------------------------
(* Paths and files *)

Paths == {p \in [exists : BOOLEAN, is_file : BOOLEAN, suffix : {".csv", ".txt"}] :
             p.is_file => p.exists}

\* _verify_path_is_goats_csv: the message of the ValueError, "" when it passes
verify_path_is_goats_csv(path) ==
    IF ~path.exists THEN "ValueError: does not exist"
    ELSE IF ~path.is_file THEN "ValueError: is not a file"
    ELSE IF ~(path.suffix = ".csv") THEN "ValueError: is not a .csv file"
    ELSE ""

\* the validator of dim: attrs ignores what a validator returns, and this one
\* never raises
dim_validator(v) == ""

\* a column of n rows
Columns(n) == [1..n -> Readings]

\* the outlier filter that produced the filtered channel of the model's datasets
FilteredColumn(col) == [i \in DOMAIN col |-> IF OutOfBounds(col[i]) THEN NaN ELSE col[i]]

NaNColumn(n) == [i \in 1..n |-> NaN]

\* the sensor file of n rows with the raw range columns cols, ranges_1..ranges_k,
\* and their filtered columns filtered_ranges_1..filtered_ranges_k
ContentFile(n, cols) ==
    [rows |-> n,
     ranges |-> cols,
     filtered_ranges |-> [b \in DOMAIN cols |-> FilteredColumn(cols[b])]]

\* the sensor file with k raw and m filtered range columns, all readings missing
EmptyFile(k, m) ==
    [rows |-> MaxRows,
     ranges |-> [b \in 1..k |-> NaNColumn(MaxRows)],
     filtered_ranges |-> [b \in 1..m |-> NaNColumn(MaxRows)]]

ValidPath == [exists |-> TRUE, is_file |-> TRUE, suffix |-> ".csv"]

----------------------------------------------------------------------------
(* FactorGraphData: the aggregate's add-operations.  Each takes the graph and
   returns the graph and the error it raised ("" if none). *)

NoGraph == [created |-> FALSE, landmark_variables |-> {}, pose_variables |-> <<>>,
            odom_measurements |-> <<>>, range_measurements |-> <<>>]

\* FactorGraphData(dimension=dim): an empty aggregate
FactorGraphData == [NoGraph EXCEPT !.created = TRUE]

Range(seq) == {seq[i] : i \in DOMAIN seq}

pose_exists(g, name) == name \in Range(g.pose_variables)
landmark_exists(g, name) == name \in g.landmark_variables

add_landmark_variable(g, name) ==
    IF landmark_exists(g, name)
    THEN [pyfg |-> g, error |-> "ValueError: duplicate landmark"]
    ELSE [pyfg |-> [g EXCEPT !.landmark_variables = @ \cup {name}], error |-> ""]

add_pose_variable(g, name) ==
    IF pose_exists(g, name)
    THEN [pyfg |-> g, error |-> "ValueError: duplicate pose"]
    ELSE [pyfg |-> [g EXCEPT !.pose_variables = Append(@, name)], error |-> ""]

add_odom_measurement(g, robot_idx, m) ==
    IF pose_exists(g, m.base_pose) /\ pose_exists(g, m.to_pose)
    THEN [pyfg |-> [g EXCEPT !.odom_measurements = Append(@, m)], error |-> ""]
    ELSE [pyfg |-> g, error |-> "ReferentialIntegrityError"]

\* as add_range_measurement, without the check of the identifiers
add_range_measurement_unchecked(g, m) ==
    [pyfg |-> [g EXCEPT !.range_measurements = Append(@, m)], error |-> ""]

add_range_measurement(g, m) ==
    IF pose_exists(g, m.association[1]) /\ landmark_exists(g, m.association[2])
    THEN [pyfg |-> [g EXCEPT !.range_measurements = Append(@, m)], error |-> ""]
    ELSE [pyfg |-> g, error |-> "ReferentialIntegrityError"]

----------------------------------------------------------------------------
(* Measurement entities (measurements.py).  A constructor returns the object
   made and the message of the ValueError raised ("" if none). *)

NoObject == [cls |-> "None"]
NoCall == [cls |-> "None"]
NotRead == [raised |-> "", value |-> <<>>]

\* the messages of check_association, check_true_association and
\* check_measured_association
MsgArity == "Range measurements must have exactly two variables associated with."
MsgUnique == "Range measurements must have unique variables."
MsgFirstRole == "First association must be a pose - cannot start with L"
MsgSecondRole == "Second association must be a Landmark - must start with L"

\* as check_association, without the check of the second element
check_association_any_second(value) ==
    IF Len(value) # 2 THEN MsgArity
    ELSE IF value[1] = value[2] THEN MsgUnique
    ELSE IF StartsWithL(value[1]) THEN MsgFirstRole
    ELSE ""

\* as check_association, the second element checked before the first
check_association_second_first(value) ==
    IF Len(value) # 2 THEN MsgArity
    ELSE IF value[1] = value[2] THEN MsgUnique
    ELSE IF ~StartsWithL(value[2]) THEN MsgSecondRole
    ELSE IF StartsWithL(value[1]) THEN MsgFirstRole
    ELSE ""

\* FGRangeMeasurement.check_association
check_association(value) ==
    IF Len(value) # 2 THEN MsgArity
    ELSE IF value[1] = value[2] THEN MsgUnique
    ELSE IF StartsWithL(value[1]) THEN MsgFirstRole
    ELSE IF ~StartsWithL(value[2]) THEN MsgSecondRole
    ELSE ""

\* FGRangeMeasurement(association, dist, stddev)
FGRangeMeasurement(association, dist, stddev) ==
    LET msg == check_association(association)
    IN  IF msg # ""
        THEN [obj |-> NoObject, raised |-> msg]
        ELSE [obj |-> [cls |-> "FGRangeMeasurement", association |-> association,
                       dist |-> dist, stddev |-> stddev],
              raised |-> ""]

\* AmbiguousFGRangeMeasurement.check_true_association
check_true_association(value) ==
    IF Len(value) # 2 THEN MsgArity
    ELSE IF Len(value) # Cardinality(Range(value)) THEN MsgUnique
    ELSE ""

\* as check_measured_association, with the role checks of a plain Range
\* Measurement
check_measured_association_with_roles(value) == check_association(value)

\* AmbiguousFGRangeMeasurement.check_measured_association
check_measured_association(value) ==
    IF Len(value) # 2 THEN MsgArity
    ELSE IF Len(value) # Cardinality(Range(value)) THEN MsgUnique
    ELSE ""

\* AmbiguousFGRangeMeasurement(true_association, measured_association, dist, stddev):
\* attrs runs the validators in the order of the fields
AmbiguousFGRangeMeasurement(true_association, measured_association, dist, stddev) ==
    LET msg1 == check_true_association(true_association)
        msg2 == check_measured_association(measured_association)
    IN  IF msg1 # "" THEN [obj |-> NoObject, raised |-> msg1]
        ELSE IF msg2 # "" THEN [obj |-> NoObject, raised |-> msg2]
        ELSE [obj |-> [cls |-> "AmbiguousFGRangeMeasurement",
                       true_association |-> true_association,
                       measured_association |-> measured_association,
                       dist |-> dist, stddev |-> stddev],
              raised |-> ""]

\* PoseMeasurement(base_pose, to_pose, x, y, theta, translation_weight,
\* rotation_weight): no field has a validator.  x, y and theta are left out.
PoseMeasurement(base_pose, to_pose, translation_weight, rotation_weight) ==
    [obj |-> [cls |-> "PoseMeasurement", base_pose |-> base_pose, to_pose |-> to_pose,
              translation_weight |-> translation_weight,
              rotation_weight |-> rotation_weight],
     raised |-> ""]

\* AmbiguousPoseMeasurement(base_pose, measured_to_pose, true_to_pose, x, y, theta,
\* translation_weight, rotation_weight): no field has a validator
AmbiguousPoseMeasurement(base_pose, measured_to_pose, true_to_pose, translation_weight, rotation_weight) ==
    [obj |-> [cls |-> "AmbiguousPoseMeasurement", base_pose |-> base_pose,
              measured_to_pose |-> measured_to_pose, true_to_pose |-> true_to_pose,
              translation_weight |-> translation_weight,
              rotation_weight |-> rotation_weight],
     raised |-> ""]

----------------------------------------------------------------------------
(* GoatsParser (parse_goats_data.py).  A phase takes the graph and returns the
   graph and the exception that ended it ("" if none). *)

\* _COLUMN_NAMES names the range columns of four beacons
NumColumnNames == 4

\* GoatsParser.num_beacons
num_beacons == beacon_locs

\* the column lookups of _get_unfiltered_range and _get_filtered_range succeed
has_ranges(beacon_num) ==
    /\ beacon_num + 1 <= NumColumnNames
    /\ beacon_num + 1 <= Len(IF filter_ranges THEN data.filtered_ranges ELSE data.ranges)

get_unfiltered_range(beacon_num) == data.ranges[beacon_num + 1]

get_filtered_range(beacon_num) == data.filtered_ranges[beacon_num + 1]

\* GoatsParser._get_ranges
get_ranges(beacon_num) ==
    IF filter_ranges THEN get_filtered_range(beacon_num)
    ELSE get_unfiltered_range(beacon_num)

\* as check_beacon_num_consistent, the filtered range columns not counted
check_beacon_num_raw_only == Len(data.ranges) = beacon_locs

\* GoatsParser._check_beacon_num_consistent: the assertion holds
check_beacon_num_consistent ==
    LET num_beacon_locs == beacon_locs
        range_cols == Len(data.ranges)
        filtered_range_cols == Len(data.filtered_ranges)
    IN  range_cols = filtered_range_cols /\ filtered_range_cols = num_beacon_locs

\* np.count_nonzero(~np.isnan(ranges))
count_non_nan(ranges) == Cardinality({i \in DOMAIN ranges : ~isnan(ranges[i])})

\* the beacon is added: not (num_non_nan < self.dim)
beacon_is_added(ranges) == ~(count_non_nan(ranges) < dim)

RECURSIVE add_beacon_loop(_, _)
add_beacon_loop(g, idx) ==
    IF idx >= num_beacons THEN [pyfg |-> g, error |-> ""]
    ELSE IF ~has_ranges(idx) THEN [pyfg |-> g, error |-> "KeyError"]
    ELSE IF ~beacon_is_added(get_ranges(idx)) THEN add_beacon_loop(g, idx + 1)
    ELSE LET r == add_landmark_variable(g, LandmarkName(idx))
         IN  IF r.error # "" THEN r ELSE add_beacon_loop(r.pyfg, idx + 1)

\* GoatsParser._add_beacon_variables
add_beacon_variables(g) == add_beacon_loop(g, 0)

\* GoatsParser.rotations: the exception it raises, "" for dim 2.  For dim 3
\* the frame is indexed by a tuple of three column names, which is no column.
rotations_error ==
    IF dim = 2 THEN ""
    ELSE IF dim = 3 THEN "KeyError"
    ELSE "ValueError: dim must be 2 or 3"

\* GoatsParser._row_has_range_measures
row_has_range_measures(row) ==
    \E idx \in 0..(num_beacons - 1) : ~isnan(get_ranges(idx)[row + 1])

\* as pose_is_added, with an infinite reading counted as a missing one
pose_is_added_by_finite_reading(idx) ==
    ~(~(\E b \in 0..(num_beacons - 1) :
            ~isnan(get_ranges(b)[idx + 1]) /\ ~isinf(get_ranges(b)[idx + 1]))
      /\ idx # 0)

\* the row becomes a pose: not (not self._row_has_range_measures(idx) and idx != 0)
pose_is_added(idx) == ~(~row_has_range_measures(idx) /\ idx # 0)

RECURSIVE add_pose_loop(_, _)
add_pose_loop(g, idx) ==
    IF idx >= data.rows THEN [pyfg |-> g, error |-> ""]
    ELSE IF ~pose_is_added(idx) THEN add_pose_loop(g, idx + 1)
    ELSE LET r == add_pose_variable(g, PoseName(idx))
         IN  IF r.error # "" THEN r ELSE add_pose_loop(r.pyfg, idx + 1)

\* GoatsParser._add_pose_variables
add_pose_variables(g) ==
    IF rotations_error # "" THEN [pyfg |-> g, error |-> rotations_error]
    ELSE add_pose_loop(g, 0)

\* get_measurement_precisions_from_covariances(0.02 ** 2, 0.002 ** 2): the
\* reciprocals of trans_cov and rot_cov
trans_precision == 2500
rot_precision == 250000

\* the row gets an odometry measurement: it passes both `continue`s of the loop
odom_is_emitted(idx) == row_has_range_measures(idx) /\ idx # 0

\* as next_base_pose_name, the base never moved on
next_base_pose_name_kept(base_pose_name, to_pose_name) == base_pose_name

\* line 212, base_pose_name = to_pose_name: the base of the next measurement
next_base_pose_name(base_pose_name, to_pose_name) == to_pose_name

RECURSIVE add_odometry_loop(_, _, _)
add_odometry_loop(g, idx, base_pose_name) ==
    IF idx >= data.rows THEN [pyfg |-> g, error |-> ""]
    ELSE IF ~odom_is_emitted(idx) THEN add_odometry_loop(g, idx + 1, base_pose_name)
    ELSE LET to_pose_name == PoseName(idx)
             relative_pose_measurement ==
                 PoseMeasurement(base_pose_name, to_pose_name, trans_precision, rot_precision)
             r == add_odom_measurement(g, 0, relative_pose_measurement.obj)
         IN  IF r.error # "" THEN r
             ELSE add_odometry_loop(r.pyfg, idx + 1,
                                    next_base_pose_name(base_pose_name, to_pose_name))

\* GoatsParser._add_odometry_measurements
add_odometry_measurements(g) ==
    IF data.rows = 0 THEN [pyfg |-> g, error |-> "IndexError"]
    ELSE IF rotations_error # "" THEN [pyfg |-> g, error |-> rotations_error]
    ELSE add_odometry_loop(g, 0, PoseName(0))

\* range_stddev = 0.75, in hundredths
range_stddev == 75

\* as range_is_emitted, with the out-of-bounds `continue` in force
range_is_emitted_within_bounds(dist) ==
    ~(isnan(dist) \/ isinf(dist) \/ ~isreal(dist)) /\ ~OutOfBounds(dist)

\* the reading gets a range measurement:
\* not (np.isnan(dist) or np.isinf(dist) or not np.isreal(dist))
range_is_emitted(dist) == ~(isnan(dist) \/ isinf(dist) \/ ~isreal(dist))

\* The loops of _add_range_measurements from cell (b, r) on; lb and lr are the
\* values beacon_idx and pose_idx hold (-1: not yet bound).
RECURSIVE add_range_loop(_, _, _, _, _)
add_range_loop(g, b, r, lb, lr) ==
    IF b >= num_beacons
    THEN [pyfg |-> g, error |-> "", beacon_idx |-> lb, pose_idx |-> lr]
    ELSE IF ~has_ranges(b)
    THEN [pyfg |-> g, error |-> "KeyError", beacon_idx |-> b, pose_idx |-> lr]
    ELSE IF r >= Len(get_ranges(b)) THEN add_range_loop(g, b + 1, 0, b, lr)
    ELSE LET dist == get_ranges(b)[r + 1]
             range_measure == FGRangeMeasurement(<<PoseName(r), LandmarkName(b)>>,
                                                 dist, range_stddev)
             added == add_range_measurement(g, range_measure.obj)
             stop(e) == [pyfg |-> g, error |-> e, beacon_idx |-> b, pose_idx |-> r]
         IN  IF ~range_is_emitted(dist) THEN add_range_loop(g, b, r + 1, b, r)
             ELSE IF range_measure.raised # "" THEN stop(range_measure.raised)
             ELSE IF added.error # "" THEN stop(added.error)
             ELSE add_range_loop(added.pyfg, b, r + 1, b, r)

\* GoatsParser._add_range_measurements
add_range_measurements(g) == add_range_loop(g, 0, 0, -1, -1)

----------------------------------------------------------------------------
(* One construction GoatsParser(data_file_path, beacon_loc_file_path, dim,
   filter_ranges) *)

NotLoaded == [rows |-> 0, ranges |-> <<>>, filtered_ranges |-> <<>>]

\* the constructor is called with these arguments, the files holding this
Called(p, q, d, f, file, k) ==
    /\ data_file_path = p
    /\ beacon_loc_file_path = q
    /\ dim = d
    /\ filter_ranges = f
    /\ data_csv = file
    /\ beacon_csv = k

\* The constructor calls of the model: every combination of paths; behind valid
\* paths every combination of column counts; behind matching column counts
\* every content.
Init ==
    /\ \/ \E p \in Paths, q \in Paths, d \in Dims, f \in BOOLEAN :
               Called(p, q, d, f, EmptyFile(1, 1), 1)
       \/ \E k \in BeaconCounts, m \in BeaconCounts, n \in BeaconCounts :
               \E d \in Dims, f \in BOOLEAN :
                   Called(ValidPath, ValidPath, d, f, EmptyFile(k, m), n)
       \/ \E k \in BeaconCounts, n \in 0..MaxRows : \E cols \in [1..k -> Columns(n)] :
               \E d \in Dims, f \in BOOLEAN :
                   Called(ValidPath, ValidPath, d, f, ContentFile(n, cols), k)
    /\ data = NotLoaded
    /\ beacon_locs = 0
    /\ pyfg = NoGraph
    /\ pc = "validators"
    /\ error = ""
    /\ beacon_idx = -1
    /\ pose_idx = -1
    /\ call = NoCall
    /\ made = NoObject
    /\ raised = ""
    /\ read = NotRead

\* the exception that leaves: the construction is over
Raise(e) ==
    /\ pc' = "raised"
    /\ error' = e

\* the generated __init__ runs the validators in the order of the fields
RunValidators ==
    /\ pc = "validators"
    /\ LET e1 == verify_path_is_goats_csv(data_file_path)
           e2 == verify_path_is_goats_csv(beacon_loc_file_path)
           e3 == dim_validator(dim)
       IN  IF e1 # "" THEN Raise(e1)
           ELSE IF e2 # "" THEN Raise(e2)
           ELSE IF e3 # "" THEN Raise(e3)
           ELSE pc' = "post_init" /\ error' = error
    /\ UNCHANGED <<data_file_path, beacon_loc_file_path, dim, filter_ranges, data_csv,
                   beacon_csv, data, beacon_locs, pyfg, beacon_idx, pose_idx, entity_vars>>

\* __attrs_post_init__, lines 62-74: read both files
ReadFiles ==
    /\ pc = "post_init"
    /\ data' = data_csv
    /\ beacon_locs' = beacon_csv
    /\ pc' = "check_beacon_num"
    /\ UNCHANGED <<data_file_path, beacon_loc_file_path, dim, filter_ranges, data_csv,
                   beacon_csv, pyfg, error, beacon_idx, pose_idx, entity_vars>>

\* __attrs_post_init__, line 76
CheckBeaconNumConsistent ==
    /\ pc = "check_beacon_num"
    /\ IF check_beacon_num_consistent
       THEN pc' = "create_graph" /\ error' = error
       ELSE Raise("AssertionError: Number of beacon info is inconsistent.")
    /\ UNCHANGED <<data_file_path, beacon_loc_file_path, dim, filter_ranges, data_csv,
                   beacon_csv, data, beacon_locs, pyfg, beacon_idx, pose_idx, entity_vars>>

\* __attrs_post_init__, line 78
\* as fill_factor_graph, with the pose variables added before the beacons
fill_factor_graph_poses_first ==
    <<"add_pose_variables", "add_beacon_variables", "add_odometry_measurements",
      "add_range_measurements">>

\* GoatsParser._fill_factor_graph: the four calls in the order of the body
fill_factor_graph ==
    <<"add_beacon_variables", "add_pose_variables", "add_odometry_measurements",
      "add_range_measurements">>

\* where the construction is once the call `phase` of _fill_factor_graph returned
phase_after(phase) ==
    LET i == CHOOSE j \in DOMAIN fill_factor_graph : fill_factor_graph[j] = phase
    IN  IF i < Len(fill_factor_graph) THEN fill_factor_graph[i + 1] ELSE "done"

CreateGraph ==
    /\ pc = "create_graph"
    /\ pyfg' = FactorGraphData
    /\ pc' = fill_factor_graph[1]
    /\ UNCHANGED <<data_file_path, beacon_loc_file_path, dim, filter_ranges, data_csv,
                   beacon_csv, data, beacon_locs, error, beacon_idx, pose_idx, entity_vars>>

\* a phase of _fill_factor_graph: r is what the phase returned
Phase(r, next) ==
    /\ pyfg' = r.pyfg
    /\ IF r.error # "" THEN Raise(r.error) ELSE pc' = next /\ error' = error
    /\ UNCHANGED <<data_file_path, beacon_loc_file_path, dim, filter_ranges, data_csv,
                   beacon_csv, data, beacon_locs, entity_vars>>

AddBeaconVariables ==
    /\ pc = "add_beacon_variables"
    /\ Phase(add_beacon_variables(pyfg), phase_after("add_beacon_variables"))
    /\ UNCHANGED <<beacon_idx, pose_idx>>

AddPoseVariables ==
    /\ pc = "add_pose_variables"
    /\ Phase(add_pose_variables(pyfg), phase_after("add_pose_variables"))
    /\ UNCHANGED <<beacon_idx, pose_idx>>

AddOdometryMeasurements ==
    /\ pc = "add_odometry_measurements"
    /\ Phase(add_odometry_measurements(pyfg), phase_after("add_odometry_measurements"))
    /\ UNCHANGED <<beacon_idx, pose_idx>>

AddRangeMeasurements ==
    /\ pc = "add_range_measurements"
    /\ LET r == add_range_measurements(pyfg)
       IN  /\ Phase(r, phase_after("add_range_measurements"))
           /\ beacon_idx' = r.beacon_idx
           /\ pose_idx' = r.pose_idx

Next ==
    \/ RunValidators
    \/ ReadFiles
    \/ CheckBeaconNumConsistent
    \/ CreateGraph
    \/ AddBeaconVariables
    \/ AddPoseVariables
    \/ AddOdometryMeasurements
    \/ AddRangeMeasurements

Spec == Init /\ [][Next]_vars

----------------------------------------------------------------------------
(* Constructions of measurement objects: a behaviour is one constructor call
   and the reads of the object it made *)

\* identifiers of the model: "A1", "A2", "L1", "L2"
Identifiers == {<<"A", 1>>, <<"A", 2>>, <<"L", 1>>, <<"L", 2>>}

Associations == UNION {[1..n -> Identifiers] : n \in 0..MaxAssocLen}

\* translation and rotation weights of the model
Weights == {-1, 0, 1, 2}

\* 1 / w, as a fraction
Reciprocal(w) == [num |-> 1, den |-> w]
Zero == [num |-> 0, den |-> 1]

\* a covariance whose third diagonal entry is 1 / translation_weight
covariance_rotation_from_translation(m) ==
    IF m.translation_weight = 0 \/ m.rotation_weight = 0
    THEN [raised |-> "ZeroDivisionError", value |-> <<>>]
    ELSE [raised |-> "",
          value |-> <<<<Reciprocal(m.translation_weight), Zero, Zero>>,
                      <<Zero, Reciprocal(m.translation_weight), Zero>>,
                      <<Zero, Zero, Reciprocal(m.translation_weight)>>>>]

\* PoseMeasurement.covariance and AmbiguousPoseMeasurement.covariance: 1 / 0
\* raises ZeroDivisionError
covariance(m) ==
    IF m.translation_weight = 0 \/ m.rotation_weight = 0
    THEN [raised |-> "ZeroDivisionError", value |-> <<>>]
    ELSE [raised |-> "",
          value |-> <<<<Reciprocal(m.translation_weight), Zero, Zero>>,
                      <<Zero, Reciprocal(m.translation_weight), Zero>>,
                      <<Zero, Zero, Reciprocal(m.rotation_weight)>>>>]

InitEntities ==
    /\ Called(ValidPath, ValidPath, 2, FALSE, EmptyFile(0, 0), 0)
    /\ data = NotLoaded
    /\ beacon_locs = 0
    /\ pyfg = NoGraph
    /\ pc = "idle"
    /\ error = ""
    /\ beacon_idx = -1
    /\ pose_idx = -1
    /\ call = NoCall
    /\ made = NoObject
    /\ raised = ""
    /\ read = NotRead

\* the constructor call c returned or raised r
Constructed(c, r) ==
    /\ call' = c
    /\ made' = r.obj
    /\ raised' = r.raised
    /\ read' = NotRead
    /\ UNCHANGED ingest_vars

ConstructFGRangeMeasurement ==
    /\ call = NoCall
    /\ \E association \in Associations, dist \in {Num(5)} :
        Constructed([cls |-> "FGRangeMeasurement", association |-> association],
                    FGRangeMeasurement(association, dist, range_stddev))

ConstructAmbiguousFGRangeMeasurement ==
    /\ call = NoCall
    /\ \E true_association \in Associations, measured_association \in Associations,
       dist \in {Num(5)} :
        Constructed([cls |-> "AmbiguousFGRangeMeasurement",
                     true_association |-> true_association,
                     measured_association |-> measured_association],
                    AmbiguousFGRangeMeasurement(true_association, measured_association,
                                                dist, range_stddev))

ConstructPoseMeasurement ==
    /\ call = NoCall
    /\ \E translation_weight \in Weights, rotation_weight \in Weights :
        Constructed([cls |-> "PoseMeasurement", translation_weight |-> translation_weight,
                     rotation_weight |-> rotation_weight],
                    PoseMeasurement(<<"A", 1>>, <<"A", 2>>, translation_weight,
                                    rotation_weight))

ConstructAmbiguousPoseMeasurement ==
    /\ call = NoCall
    /\ \E translation_weight \in Weights, rotation_weight \in Weights :
        Constructed([cls |-> "AmbiguousPoseMeasurement",
                     translation_weight |-> translation_weight,
                     rotation_weight |-> rotation_weight],
                    AmbiguousPoseMeasurement(<<"A", 1>>, <<"A", 2>>, <<"A", 2>>,
                                             translation_weight, rotation_weight))

IsPoseMeasurement(m) == m.cls \in {"PoseMeasurement", "AmbiguousPoseMeasurement"}

\* made.covariance is read
ReadCovariance ==
    /\ IsPoseMeasurement(made)
    /\ read' = covariance(made)
    /\ UNCHANGED <<call, made, raised, ingest_vars>>

NextEntities ==
    \/ ConstructFGRangeMeasurement
    \/ ConstructAmbiguousFGRangeMeasurement
    \/ ConstructPoseMeasurement
    \/ ConstructAmbiguousPoseMeasurement
    \/ ReadCovariance

SpecEntities == InitEntities /\ [][NextEntities]_vars

----------------------------------------------------------------------------
(* Vocabulary of the claims about the ingestion *)

\* the reading of beacon b at row r in the selected channel
Reading(b, r) == get_ranges(b)[r + 1]

Beacons == 0..(num_beacons - 1)
Rows == 0..(data.rows - 1)

\* the beacon became a Landmark Variable, the row a Pose Variable
BeaconAdmitted(b) == LandmarkName(b) \in pyfg.landmark_variables
RowAdmitted(r) == PoseName(r) \in Range(pyfg.pose_variables)

\* the graph holds a Range Measurement with association (A<r>, L<b>)
RangeEmitted(b, r) ==
    \E i \in DOMAIN pyfg.range_measurements :
        pyfg.range_measurements[i].association = <<PoseName(r), LandmarkName(b)>>

\* every identifier a measurement of the graph names is a variable of the graph
NoMeasurementDangles(g) ==
    /\ \A i \in DOMAIN g.odom_measurements :
           /\ g.odom_measurements[i].base_pose \in Range(g.pose_variables)
           /\ g.odom_measurements[i].to_pose \in Range(g.pose_variables)
    /\ \A i \in DOMAIN g.range_measurements :
           /\ g.range_measurements[i].association[1] \in Range(g.pose_variables)
           /\ g.range_measurements[i].association[2] \in g.landmark_variables

----------------------------------------------------------------------------
\* C1: no measurement of the graph dangles: every odometry measurement's
\* base_pose and to_pose and every range measurement's pose and landmark name
\* a variable added to the same graph; the construction ends with such a graph
\* and no error, or with an error.
C1_NoMeasurementDangles ==
    /\ NoMeasurementDangles(pyfg)
    /\ pc = "done" => error = ""
    /\ pc = "raised" => error # ""

\* a run that completed with odometry and range measurements in the graph
C1_Witness ==
    /\ pc = "done"
    /\ Len(pyfg.odom_measurements) >= 1
    /\ Len(pyfg.range_measurements) >= 2


\* the selected channel of beacon b has fewer than dim non-missing readings
BeaconIsSparse(b) == count_non_nan(get_ranges(b)) < dim

\* C2: at dim 2, over a file with rows, the construction does not end in an
\* error, a beacon with fewer than dim non-missing readings is no Landmark
\* Variable, and no Range Measurement has it in its association.
C2_SparseBeaconIsDropped ==
    (dim = 2 /\ data.rows > 0 /\ pc \in {"done", "raised"} /\ pyfg.created) =>
        \A b \in Beacons :
            BeaconIsSparse(b) =>
                /\ pc = "done"
                /\ ~BeaconAdmitted(b)
                /\ \A r \in Rows : ~RangeEmitted(b, r)

\* the pose phase has returned
PosesAdded == pc \in {"add_odometry_measurements", "add_range_measurements", "done"}

\* C3: row 0 is a Pose Variable; any other row is one if and only if an
\* admitted beacon has a non-missing reading at it.
C3_PoseAdmittedIffAdmittedBeaconReads ==
    PosesAdded =>
        \A r \in Rows :
            RowAdmitted(r) <=>
                (r = 0 \/ \E b \in Beacons : BeaconAdmitted(b) /\ ~isnan(Reading(b, r)))

\* the odometry phase has returned
OdometryAdded == pc \in {"add_range_measurements", "done"}

\* the index in an identifier: the row of a pose, the beacon of a landmark
IndexOf(name) == name[2]

\* C4: with the admitted poses in ascending row order A<r0>, ..., A<rk>, r0 = 0,
\* the graph holds exactly k odometry measurements, the i-th from A<r(i-1)> to
\* A<ri>; none names a skipped row.
C4_OdometryChainsAdmittedPoses ==
    OdometryAdded =>
        LET poses == pyfg.pose_variables
            odom == pyfg.odom_measurements
        IN  /\ Len(poses) >= 1
            /\ poses[1] = PoseName(0)
            /\ \A i \in 1..(Len(poses) - 1) : IndexOf(poses[i]) < IndexOf(poses[i + 1])
            /\ Len(odom) = Len(poses) - 1
            /\ \A i \in DOMAIN odom :
                   /\ odom[i].base_pose = poses[i]
                   /\ odom[i].to_pose = poses[i + 1]

\* rows 0 and 1 have no reading, row 1 is skipped, and the chain is A0 -> A2
C4_Witness ==
    /\ OdometryAdded
    /\ ~row_has_range_measures(0)
    /\ pyfg.pose_variables = <<PoseName(0), PoseName(2)>>
    /\ Len(pyfg.odom_measurements) = 1
    /\ pyfg.odom_measurements[1].base_pose = PoseName(0)
    /\ pyfg.odom_measurements[1].to_pose = PoseName(2)

\* the loops of _add_range_measurements have been at cell (b, r)
CellVisited(b, r) ==
    /\ pc \in {"done", "raised"}
    /\ b < beacon_idx \/ (b = beacon_idx /\ r <= pose_idx)

\* C5: for each admitted beacon b and each row r the range loops have been at,
\* the graph holds a Range Measurement (A<r>, L<b>) if and only if the reading
\* at (r, b) is neither NaN nor infinite; no measurement carries a NaN or
\* infinite distance; a reading outside [2.0, 150.0] is emitted all the same.
C5_RangeEmittedIffFinite ==
    /\ \A b \in Beacons : \A r \in Rows :
           (BeaconAdmitted(b) /\ CellVisited(b, r)) =>
               (RangeEmitted(b, r) <=> Reading(b, r).kind = "num")
    /\ \A i \in DOMAIN pyfg.range_measurements :
           LET m == pyfg.range_measurements[i]
           IN  /\ m.dist.kind = "num"
               /\ m.dist = Reading(IndexOf(m.association[2]), IndexOf(m.association[1]))
    /\ pc = "done" => \A b \in Beacons : \A r \in Rows : CellVisited(b, r)

\* a completed run whose admitted beacon 0 read NaN at row 0, infinity at row 1
\* and 1.0, below the minimum, at row 2: only the last is in the graph
C5_Witness ==
    /\ pc = "done"
    /\ BeaconAdmitted(0)
    /\ data.rows = 3
    /\ isnan(Reading(0, 0)) /\ ~RangeEmitted(0, 0)
    /\ isinf(Reading(0, 1)) /\ ~RangeEmitted(0, 1)
    /\ OutOfBounds(Reading(0, 2)) /\ RangeEmitted(0, 2)

\* the source is structurally invalid: a path that does not exist, is no file or
\* has not the suffix .csv, or a beacon file whose number of beacons differs from
\* the number of raw or of filtered range columns
PathInvalid(path) == ~path.exists \/ ~path.is_file \/ path.suffix # ".csv"
StructurallyInvalid ==
    \/ PathInvalid(data_file_path)
    \/ PathInvalid(beacon_loc_file_path)
    \/ beacon_csv # Len(data_csv.ranges)
    \/ beacon_csv # Len(data_csv.filtered_ranges)

\* C8: over a structurally invalid source the construction never creates the
\* factor graph and adds no variable and no measurement: it is reading, checking
\* or has raised.
C8_InvalidSourceFailsBeforeGraph ==
    StructurallyInvalid =>
        /\ pyfg = NoGraph
        /\ pc \in {"validators", "post_init", "check_beacon_num", "raised"}
        /\ pc = "raised" => error # ""

\* 2 beacons over a file with 1 raw range column: the assertion has failed
C8_Witness ==
    /\ ~PathInvalid(data_file_path) /\ ~PathInvalid(beacon_loc_file_path)
    /\ beacon_csv = 2
    /\ Len(data_csv.ranges) = 1
    /\ pc = "raised"
    /\ pyfg = NoGraph


----------------------------------------------------------------------------
(* Claims about the measurement entities, under SpecEntities *)

A1 == <<"A", 1>>
A2 == <<"A", 2>>
L1 == <<"L", 1>>
L2 == <<"L", 2>>

\* C6: the construction of a Range Measurement fails if and only if its
\* association has a length other than 2, or two equal elements, or a first
\* element that starts with "L", or a second element that does not; a
\* construction that does not fail makes the measurement with that association.
C6_RangeConstructionFailsIff ==
    call.cls = "FGRangeMeasurement" =>
        LET a == call.association
            fails == raised # ""
        IN  /\ fails <=> \/ Len(a) # 2
                         \/ a[1] = a[2]
                         \/ StartsWithL(a[1])
                         \/ ~StartsWithL(a[2])
            /\ fails => made = NoObject
            /\ ~fails => made.cls = "FGRangeMeasurement" /\ made.association = a

\* the pose pair ("A1", "A2") is rejected: its second element is no landmark
C6_Witness ==
    /\ call.cls = "FGRangeMeasurement"
    /\ call.association = <<A1, A2>>
    /\ raised # ""
    /\ made = NoObject

\* the association has a length other than 2 or holds an element twice
NotAPair(a) == Len(a) # 2 \/ \E i, j \in DOMAIN a : i < j /\ a[i] = a[j]

\* C7: the construction of an Ambiguous Range Measurement fails if and only if
\* true_association or measured_association has a length other than 2 or holds
\* an element twice; what either element starts with plays no part.
C7_AmbiguousConstructionFailsIff ==
    call.cls = "AmbiguousFGRangeMeasurement" =>
        LET fails == raised # ""
        IN  /\ fails <=> (NotAPair(call.true_association)
                            \/ NotAPair(call.measured_association))
            /\ fails => made = NoObject
            /\ ~fails => /\ made.cls = "AmbiguousFGRangeMeasurement"
                         /\ made.true_association = call.true_association
                         /\ made.measured_association = call.measured_association

\* pairs that a plain Range Measurement rejects are accepted
C7_Witness ==
    /\ call.cls = "AmbiguousFGRangeMeasurement"
    /\ call.true_association = <<L1, A2>>
    /\ call.measured_association \in {<<L1, L2>>, <<A1, A2>>}
    /\ check_association(call.true_association) # ""
    /\ check_association(call.measured_association) # ""
    /\ raised = ""
    /\ made.cls = "AmbiguousFGRangeMeasurement"

\* C9: a Pose Measurement or Ambiguous Pose Measurement that exists has strictly
\* positive translation and rotation precision, and a read of its covariance
\* raises nothing.
C9_PoseMeasurementPrecisionsPositive ==
    IsPoseMeasurement(made) =>
        /\ made.translation_weight > 0
        /\ made.rotation_weight > 0
        /\ read.raised = ""

\* C10: a rejected construction of a Range Measurement reports exactly one of
\* four pairwise different messages, that of the first violated invariant in
\* the order arity, distinctness, first element a pose, second element a
\* landmark.
C10_RejectionReportsFirstViolated ==
    /\ Cardinality({MsgArity, MsgUnique, MsgFirstRole, MsgSecondRole}) = 4
    /\ (call.cls = "FGRangeMeasurement" /\ raised # "") =>
           LET a == call.association
           IN  /\ raised \in {MsgArity, MsgUnique, MsgFirstRole, MsgSecondRole}
               /\ raised = MsgArity <=> Len(a) # 2
               /\ raised = MsgUnique <=> (Len(a) = 2 /\ a[1] = a[2])
               /\ raised = MsgFirstRole <=>
                      (Len(a) = 2 /\ a[1] # a[2] /\ StartsWithL(a[1]))
               /\ raised = MsgSecondRole <=>
                      (Len(a) = 2 /\ a[1] # a[2] /\ ~StartsWithL(a[1])
                          /\ ~StartsWithL(a[2]))

\* ("L1", "A2") violates both role invariants and reports the first
C10_Witness ==
    /\ call.cls = "FGRangeMeasurement"
    /\ call.association = <<L1, A2>>
    /\ raised = MsgFirstRole

\* the measurement is a valid one: both precisions are strictly positive
ValidPoseMeasurement(m) ==
    IsPoseMeasurement(m) /\ m.translation_weight > 0 /\ m.rotation_weight > 0

\* the covariance that was read is the 3x3 matrix with the diagonal
\* 1 / translation precision, 1 / translation precision, 1 / rotation precision
\* and 0 at every other entry
CovarianceIsDiagonalOfReciprocals ==
    /\ read.raised = ""
    /\ DOMAIN read.value = 1..3
    /\ \A i \in 1..3 : DOMAIN read.value[i] = 1..3
    /\ \A i \in 1..3 : \A j \in 1..3 :
           read.value[i][j] =
               IF i # j THEN [num |-> 0, den |-> 1]
               ELSE IF i = 3 THEN [num |-> 1, den |-> made.rotation_weight]
               ELSE [num |-> 1, den |-> made.translation_weight]

\* C11: a read of the covariance of a Pose Measurement or Ambiguous Pose
\* Measurement with strictly positive precisions raises nothing and returns the
\* 3x3 matrix with the diagonal 1 / translation precision, 1 / translation
\* precision, 1 / rotation precision and 0 elsewhere; a further read of the
\* same measurement returns what the read before it returned.
C11_CovarianceIsDiagonalAndStable ==
    /\ []((ValidPoseMeasurement(made) /\ read # NotRead) =>
              CovarianceIsDiagonalOfReciprocals)
    /\ [][(ValidPoseMeasurement(made) /\ read # NotRead) => read' = read]_vars

\* the covariance of a measurement with translation precision 1 and rotation
\* precision 2 has been read: its third diagonal entry is 1/2
C11_Witness ==
    /\ made.cls = "PoseMeasurement"
    /\ made.translation_weight = 1
    /\ made.rotation_weight = 2
    /\ read # NotRead
    /\ read.value[3][3] = [num |-> 1, den |-> 2]
    /\ read.value[1][1] = [num |-> 1, den |-> 1]

\* C12: once the files are loaded and the graph is created, a row that the
\* odometry loop or the range loop selects for emission is a row that the pose
\* loop selects; after the pose phase the rows the pose loop selected are the
\* Pose Variables, every measurement in the graph is to an admitted row, and a
\* referential failure of the run is never about the pose: it is raised at a
\* range cell whose row is a Pose Variable and whose beacon is no landmark.
C12_EmissionSelectsAdmittedRows ==
    pyfg.created =>
        /\ \A r \in Rows : odom_is_emitted(r) => pose_is_added(r)
        /\ \A r \in Rows : \A b \in Beacons :
               range_is_emitted(Reading(b, r)) => pose_is_added(r)
        /\ PosesAdded => \A r \in Rows : pose_is_added(r) <=> RowAdmitted(r)
        /\ \A i \in DOMAIN pyfg.odom_measurements :
               RowAdmitted(IndexOf(pyfg.odom_measurements[i].to_pose))
        /\ \A i \in DOMAIN pyfg.range_measurements :
               RowAdmitted(IndexOf(pyfg.range_measurements[i].association[1]))
        /\ error = "ReferentialIntegrityError" =>
               /\ beacon_idx \in Beacons
               /\ pose_idx \in Rows
               /\ RowAdmitted(pose_idx)
               /\ ~BeaconAdmitted(beacon_idx)

\* a completed run over 3 rows: row 1 has no reading and is no pose, row 2 has
\* a reading of beacon 0, is a pose, and got an odometry and a range measurement
C12_Witness ==
    /\ pc = "done"
    /\ data.rows = 3
    /\ ~row_has_range_measures(1) /\ ~RowAdmitted(1)
    /\ RowAdmitted(2)
    /\ RangeEmitted(0, 2)
    /\ \E i \in DOMAIN pyfg.odom_measurements :
           pyfg.odom_measurements[i].to_pose = PoseName(2)

\* the sequence s is the sequence t or t with elements appended
Extends(s, t) == Len(s) >= Len(t) /\ \A i \in DOMAIN t : s[i] = t[i]

\* the graph holds no measurement
NoMeasurement(g) == g.odom_measurements = <<>> /\ g.range_measurements = <<>>

\* C13: in every step of a construction, Landmark Variables are added only to a
\* graph without Pose Variables and without measurements, Pose Variables only
\* to a graph without measurements, odometry measurements only to a graph
\* without Range Measurements; a step that adds a measurement adds no variable,
\* nothing that was added is taken out, and each of the four populating steps
\* adds its own kind only: so the order is landmarks, poses, odometry, ranges,
\* with every variable before the first measurement.
C13_PopulatedInPhaseOrder ==
    [][/\ pyfg'.landmark_variables # pyfg.landmark_variables =>
              /\ pc = "add_beacon_variables"
              /\ pyfg.landmark_variables \subseteq pyfg'.landmark_variables
              /\ pyfg'.pose_variables = <<>>
              /\ NoMeasurement(pyfg')
       /\ pyfg'.pose_variables # pyfg.pose_variables =>
              /\ pc = "add_pose_variables"
              /\ Extends(pyfg'.pose_variables, pyfg.pose_variables)
              /\ pyfg'.landmark_variables = pyfg.landmark_variables
              /\ NoMeasurement(pyfg')
       /\ pyfg'.odom_measurements # pyfg.odom_measurements =>
              /\ pc = "add_odometry_measurements"
              /\ Extends(pyfg'.odom_measurements, pyfg.odom_measurements)
              /\ pyfg'.landmark_variables = pyfg.landmark_variables
              /\ pyfg'.pose_variables = pyfg.pose_variables
              /\ pyfg'.range_measurements = <<>>
       /\ pyfg'.range_measurements # pyfg.range_measurements =>
              /\ pc = "add_range_measurements"
              /\ Extends(pyfg'.range_measurements, pyfg.range_measurements)
              /\ pyfg'.landmark_variables = pyfg.landmark_variables
              /\ pyfg'.pose_variables = pyfg.pose_variables
              /\ pyfg'.odom_measurements = pyfg.odom_measurements
      ]_vars

\* a completed run that went through the four phases and added in each:
\* 2 landmarks, 3 poses, 2 odometry measurements, 6 range measurements
C13_Witness ==
    /\ pc = "done"
    /\ Cardinality(pyfg.landmark_variables) = 2
    /\ Len(pyfg.pose_variables) = 3
    /\ Len(pyfg.odom_measurements) = 2
    /\ Len(pyfg.range_measurements) = 6

\* C14: a construction with a dim other than 2 or 3 is rejected by the
\* validators: it never gets past them, reads no file and creates no graph.
C14_OtherDimRejectedByValidator ==
    dim \notin {2, 3} =>
        /\ pc \in {"validators", "raised"}
        /\ data = NotLoaded
        /\ pyfg = NoGraph

====
